---- MODULE Spec2Model ----
(***************************************************************************)
(* Address-linkage graph and cluster registry of                           *)
(* CryptocurrencyPrivacyAnalyzer (src/transactionny.py).                   *)
(*                                                                         *)
(* transaction_graph is a networkx DiGraph: a node map address ->          *)
(* node_type and at most ONE edge per ordered pair of nodes, whose         *)
(* attributes (tx_hash, value) are overwritten by a later add_edge on the  *)
(* same pair.  address_clusters is the dict address -> cluster id.         *)
(*                                                                         *)
(* The scoring engine, calculate_privacy_score of                          *)
(* CryptocurrencyPrivacyAnalyzer (src/addressny.py), is a function of its  *)
(* two arguments; that analyzer has neither a graph nor a registry.        *)
(***************************************************************************)
EXTENDS Integers, Sequences, FiniteSets, TLC

VARIABLES
    transaction_graph,  \* self.transaction_graph
    address_clusters,   \* self.address_clusters
    last,               \* the last call made: its name, arguments and return value
    added,              \* hashes of the transactions whose records were added
    calls,              \* number of calls made so far on the graph and the registry
    score_args,         \* the arguments calculate_privacy_score is called with
    score_result,       \* what the last calculate_privacy_score returned
    request             \* the make_request call in progress: its loop and its outcome

vars == <<transaction_graph, address_clusters, last, added, calls,
          score_args, score_result, request>>

-----------------------------------------------------------------------------
(* Values a normalized record can carry in its 'recipient' field.          *)

Addr == {"A", "B", "C", "D"}

NONSTANDARD == "nonstandard"
NA_SCRIPT == "N/A (script)"
NA_PREVOUT == "N/A (Blockstream needs prev_tx fetch)"
NO_RECIPIENT == ""

Sentinels == {NONSTANDARD, NA_SCRIPT, NA_PREVOUT}

None == [none |-> TRUE]

In(r) == [recipient |-> r]
Out(r, v) == [recipient |-> r, value |-> v]

TxHashes == {"t1", "t2", "t3"}

\* the transactions looked up in a run that only builds and reads the graph
GraphHashes == {"g1", "g2", "g3", "g4"}

\* The records the data source holds, by transaction hash.
Ledger ==
    [h \in TxHashes \cup GraphHashes |->
        CASE h = "t1" -> [hash |-> h, inputs |-> <<In("A")>>,
                          outputs |-> <<Out("B", 1), Out("C", 2)>>]
          [] h = "t2" -> [hash |-> h, inputs |-> <<In("A"), In("B")>>,
                          outputs |-> <<Out("B", 2), Out("B", 3)>>]
          [] h = "t3" -> [hash |-> h,
                          inputs |-> <<In("D"), In(NO_RECIPIENT), In(NA_PREVOUT)>>,
                          outputs |-> <<Out(NONSTANDARD, 1), Out(NO_RECIPIENT, 2),
                                        Out(NA_SCRIPT, 2)>>]
          [] h = "g1" -> [hash |-> h, inputs |-> <<In("A"), In("B")>>,
                          outputs |-> <<Out(NONSTANDARD, 1)>>]
          [] h = "g2" -> [hash |-> h, inputs |-> <<In("B")>>,
                          outputs |-> <<Out("C", 1)>>]
          [] h = "g3" -> [hash |-> h, inputs |-> <<In("D"), In("A")>>,
                          outputs |-> <<Out("C", 2), Out(NONSTANDARD, 1)>>]
          [] h = "g4" -> [hash |-> h, inputs |-> <<In("D")>>,
                          outputs |-> <<>>]]

\* get_transaction_data: the normalized record, or None on any failure.
get_transaction_data(tx_hash) == {Ledger[tx_hash], None}

Range(s) == {s[i] : i \in DOMAIN s}

\* `if recipient:` -- the field is present and non-empty
Truthy(r) == r # NO_RECIPIENT

\* `if recipient and recipient != "nonstandard":`
Linkable(r) == Truthy(r) /\ r # NONSTANDARD

-----------------------------------------------------------------------------
(* DiGraph operations                                                      *)

EmptyFn == [x \in {} |-> 0]

EmptyGraph == [nodes |-> EmptyFn, edges |-> EmptyFn]

\* DiGraph.add_node(n, node_type=t): creates the node or updates its attribute
add_node(G, n, t) ==
    [G EXCEPT !.nodes = [x \in DOMAIN G.nodes \cup {n} |->
                            IF x = n THEN t ELSE G.nodes[x]]]

\* DiGraph.add_edge(u, v, tx_hash=h, value=val): one edge per ordered pair,
\* the attributes of an existing edge are overwritten; an endpoint that is
\* not yet a node is created without a node_type
add_edge(G, u, v, h, val) ==
    [nodes |-> [x \in DOMAIN G.nodes \cup {u, v} |->
                   IF x \in DOMAIN G.nodes THEN G.nodes[x] ELSE "none"],
     edges |-> [e \in DOMAIN G.edges \cup {<<u, v>>} |->
                   IF e = <<u, v>> THEN [tx_hash |-> h, value |-> val]
                   ELSE G.edges[e]]]

RECURSIVE AddNodes(_, _, _)
AddNodes(G, recs, t) ==
    IF recs = <<>> THEN G
    ELSE LET recipient == Head(recs).recipient
         IN  AddNodes(IF Linkable(recipient) THEN add_node(G, recipient, t) ELSE G,
                      Tail(recs), t)

RECURSIVE AddEdgesFrom(_, _, _, _)
AddEdgesFrom(G, in_recipient, outs, tx_hash) ==
    IF outs = <<>> THEN G
    ELSE LET out == Head(outs)
         IN  AddEdgesFrom(IF Linkable(out.recipient)
                          THEN add_edge(G, in_recipient, out.recipient, tx_hash, out.value)
                          ELSE G,
                          in_recipient, Tail(outs), tx_hash)

\* AddEdges that stops after the edges of the first input
AddEdges_first_input_only(G, ins, outs, tx_hash) ==
    IF ins = <<>> THEN G
    ELSE IF Linkable(Head(ins).recipient)
         THEN AddEdgesFrom(G, Head(ins).recipient, outs, tx_hash)
         ELSE G

RECURSIVE AddEdges(_, _, _, _)
AddEdges(G, ins, outs, tx_hash) ==
    IF ins = <<>> THEN G
    ELSE LET in_recipient == Head(ins).recipient
         IN  AddEdges(IF Linkable(in_recipient)
                      THEN AddEdgesFrom(G, in_recipient, outs, tx_hash)
                      ELSE G,
                      Tail(ins), outs, tx_hash)

\* The graph-building part of analyze_bitcoin_transaction
BuildGraph(G, tx_hash, tx_data) ==
    AddEdges(AddNodes(AddNodes(G, tx_data.inputs, "input"), tx_data.outputs, "output"),
             tx_data.inputs, tx_data.outputs, tx_hash)

successors(G, n) == {e[2] : e \in {d \in DOMAIN G.edges : d[1] = n}}
predecessors(G, n) == {e[1] : e \in {d \in DOMAIN G.edges : d[2] = n}}

\* find_related_addresses without the predecessors
find_related_addresses_successors_only(G, address) ==
    IF address \in DOMAIN G.nodes THEN successors(G, address) ELSE {}

\* find_related_addresses
find_related_addresses(G, address) ==
    IF address \in DOMAIN G.nodes
    THEN successors(G, address) \cup predecessors(G, address)
    ELSE {}

\* Reach along the direction of the edges only
RECURSIVE Reach_directed(_, _)
Reach_directed(G, S) ==
    LET T == S \cup UNION {successors(G, n) : n \in S}
    IN  IF T = S THEN S ELSE Reach_directed(G, T)

RECURSIVE Reach(_, _)
Reach(G, S) ==
    LET T == S \cup UNION {successors(G, n) \cup predecessors(G, n) : n \in S}
    IN  IF T = S THEN S ELSE Reach(G, T)

\* nx.node_connected_component(G.to_undirected(), address)
node_connected_component(G, address) == Reach(G, {address})

-----------------------------------------------------------------------------
(* cluster_addresses                                                       *)

NewCluster(s, members) ==
    [ac |-> [a \in DOMAIN s.ac \cup members |->
                IF a \in members THEN s.cluster_id ELSE s.ac[a]],
     clusters |-> [c \in DOMAIN s.clusters \cup {s.cluster_id} |->
                IF c = s.cluster_id THEN members ELSE s.clusters[c]],
     cluster_id |-> s.cluster_id + 1]

\* ClusterStep without the scan of the component for registered members
ClusterStep_overwrite(G, s, address) ==
    IF address \in DOMAIN s.ac THEN s
    ELSE IF address \in DOMAIN G.nodes
    THEN NewCluster(s, node_connected_component(G, address))
    ELSE NewCluster(s, {address})

\* ClusterStep that registers the candidate alone instead of its component
ClusterStep_only_address(G, s, address) ==
    IF address \in DOMAIN s.ac THEN s
    ELSE IF address \in DOMAIN G.nodes
    THEN IF \A comp_addr \in node_connected_component(G, address) :
                comp_addr \notin DOMAIN s.ac
         THEN NewCluster(s, {address})
         ELSE s
    ELSE NewCluster(s, {address})

\* ClusterStep without `if address not in self.address_clusters`
ClusterStep_no_registry_check(G, s, address) ==
    IF address \in DOMAIN G.nodes
    THEN IF \A comp_addr \in node_connected_component(G, address) :
                comp_addr \notin DOMAIN s.ac
         THEN NewCluster(s, node_connected_component(G, address))
         ELSE s
    ELSE NewCluster(s, {address})

\* ClusterStep that gives the unregistered members of a component with a
\* registered member a new id instead of skipping the component
ClusterStep_fills_component(G, s, address) ==
    IF address \in DOMAIN s.ac THEN s
    ELSE IF address \in DOMAIN G.nodes
    THEN NewCluster(s, {a \in node_connected_component(G, address) :
                            a \notin DOMAIN s.ac})
    ELSE NewCluster(s, {address})

\* ClusterStep without the branch for an address that is no node
ClusterStep_no_singleton(G, s, address) ==
    IF address \in DOMAIN s.ac THEN s
    ELSE IF address \in DOMAIN G.nodes
    THEN IF \A comp_addr \in node_connected_component(G, address) :
                comp_addr \notin DOMAIN s.ac
         THEN NewCluster(s, node_connected_component(G, address))
         ELSE s
    ELSE s

\* One iteration of `for address in addresses`; s = [ac, clusters, cluster_id]
ClusterStep(G, s, address) ==
    IF address \in DOMAIN s.ac THEN s
    ELSE IF address \in DOMAIN G.nodes
    THEN LET component == node_connected_component(G, address)
             new_cluster_found == \A comp_addr \in component : comp_addr \notin DOMAIN s.ac
         IN  IF new_cluster_found THEN NewCluster(s, component) ELSE s
    ELSE NewCluster(s, {address})

RECURSIVE ClusterLoop(_, _, _)
ClusterLoop(G, s, addresses) ==
    IF addresses = <<>> THEN s
    ELSE ClusterLoop(G, ClusterStep(G, s, Head(addresses)), Tail(addresses))

\* cluster_id restarts at 0 in every call
FirstClusterId == 0

cluster_addresses(G, ac, addresses) ==
    ClusterLoop(G, [ac |-> ac, clusters |-> EmptyFn, cluster_id |-> FirstClusterId],
                addresses)

\* `cid == address_cluster_id`, cid a key of address_clusters (an address,
\* a str) and address_cluster_id one of its values (an int): never equal
KeyEqualsId(cid, address_cluster_id) == FALSE

TypeError == [error |-> "TypeError"]

\* the cluster_size loop of analyze_privacy_score: it walks the items of
\* address_clusters, (address, id) pairs, as if they were (id, members)
\* pairs; len(cluster_members) of an id would raise TypeError
cluster_size(ac, address) ==
    IF address \notin DOMAIN ac THEN 0
    ELSE IF \E cid \in DOMAIN ac : KeyEqualsId(cid, ac[address]) THEN TypeError
    ELSE 0

-----------------------------------------------------------------------------
(* Inputs of the calls                                                     *)

\* number of calls made on one analyzer in a run
MaxCalls == 3

RECURSIVE Perms(_)
Perms(S) ==
    IF S = {} THEN {<<>>}
    ELSE UNION {{<<x>> \o p : p \in Perms(S \ {x})} : x \in S}

\* the address lists handed to cluster_addresses directly: every list without
\* repetition over A, B, C (D is clustered through analyze_privacy_score)
CandidateLists == UNION {Perms(S) : S \in SUBSET {"A", "B", "C"}}

Recipients(tx_data) ==
    {tx_data.inputs[i].recipient : i \in DOMAIN tx_data.inputs}
        \cup {tx_data.outputs[i].recipient : i \in DOMAIN tx_data.outputs}

\* get_address_transactions_info: the hashes the data source lists for the
\* address, or the empty list when the fetch fails
get_address_transactions_info(address) ==
    {{h \in TxHashes : address \in Recipients(Ledger[h])}, {}}

-----------------------------------------------------------------------------
(* PrivacyScoreEngine: calculate_privacy_score of src/addressny.py.        *)
(*                                                                         *)
(* A transaction or an entry is a Python dict, modelled as a function      *)
(* whose DOMAIN holds exactly the keys the dict has.  The floats of the    *)
(* code are modelled as exact fractions [n, d] with d > 0; the score is    *)
(* kept in hundredths, the unit round(weighted_score, 2) rounds to.        *)

\* dict.get(key, default)
Get(dict, key, default) == IF key \in DOMAIN dict THEN dict[key] ELSE default

RECURSIVE GCD(_, _)
GCD(a, b) == IF b = 0 THEN a ELSE GCD(b, a % b)

Abs(x) == IF x < 0 THEN -x ELSE x

\* the fraction n / d in lowest terms
Frac(n, d) ==
    LET g == GCD(Abs(n), d) IN [n |-> n \div g, d |-> d \div g]

Whole(k) == Frac(k, 1)
AddF(a, b) == Frac(a.n * b.d + b.n * a.d, a.d * b.d)
MulF(a, k) == Frac(a.n * k, a.d)
LtF(a, b) == a.n * b.d < b.n * a.d
MinF_unclamped(a, b) == a
MinF(a, b) == IF LtF(b, a) THEN b ELSE a
MaxF(a, b) == IF LtF(a, b) THEN b ELSE a

\* round(n / d) to the nearest integer, a tie to the even neighbour
RoundHalfEven(n, d) ==
    LET q == n \div d
        r == n % d
    IN  IF 2 * r < d THEN q
        ELSE IF 2 * r > d THEN q + 1
        ELSE IF q % 2 = 0 THEN q ELSE q + 1

RECURSIVE SumSeq(_)
SumSeq(s) == IF s = <<>> THEN 0 ELSE Head(s) + SumSeq(Tail(s))

RECURSIVE Flatten(_)
Flatten(ss) == IF ss = <<>> THEN <<>> ELSE Head(ss) \o Flatten(Tail(ss))

Count(s, x) == Cardinality({i \in DOMAIN s : s[i] = x})

\* list.sort() of a list of integers
RECURSIVE Insert(_, _)
Insert(x, s) ==
    IF s = <<>> THEN <<x>>
    ELSE IF x <= Head(s) THEN <<x>> \o s
    ELSE <<Head(s)>> \o Insert(x, Tail(s))

RECURSIVE sort(_)
sort(s) == IF s = <<>> THEN <<>> ELSE Insert(Head(s), sort(Tail(s)))

ROUND_UNIT == 100000
REGULAR_TOLERANCE == 3600
SECONDS_PER_HOUR == 3600
NEUTRAL == 50
REUSE_LIMIT == 5
SIMPLE_BONUS == 20
SCRIPT_TYPE_POINTS == 25
COMPLEX_COUNT == 3
VARIANCE_PENALTY == 10

FactorNames == {"address_diversity", "timing_randomness", "amount_diversity",
                "transaction_structure", "script_diversity", "size_consistency"}

\* the weights, in hundredths
weights ==
    [f \in FactorNames |->
        CASE f = "address_diversity" -> 30
          [] f = "timing_randomness" -> 20
          [] f = "amount_diversity" -> 20
          [] f = "transaction_structure" -> 15
          [] f = "script_diversity" -> 10
          [] f = "size_consistency" -> 5]

REC_NEW_ADDRESS ==
    <<"Consider using a new address for each transaction to improve privacy">>
REC_TARGET_REUSE(n) ==
    <<"Target address used", n, "times - high reuse reduces privacy">>
REC_TIMING == <<"Vary transaction timing to avoid predictable patterns">>
REC_ROUND == <<"Avoid round number amounts to improve transaction privacy">>
REC_SIMPLE ==
    <<"Consider using simple transaction structures (1 input, 2 outputs) for better privacy">>
REC_COMPLEX ==
    <<"High complexity transactions may stand out - consider simpler patterns">>

KeyError == [error |-> "KeyError"]

\* the result of a call on an empty list
EmptyResult_neutral ==
    [score |-> NEUTRAL, factors |-> EmptyFn, recommendations |-> <<>>,
     details |-> EmptyFn]
EmptyResult ==
    [score |-> 0, factors |-> EmptyFn, recommendations |-> <<>>,
     details |-> EmptyFn]

\* the entries of tx[key], none when the transaction has no such key
EntriesOf(tx, key) == IF key \in DOMAIN tx THEN tx[key] ELSE <<>>

\* inp['sender'], out['recipient'] and out['value'] are subscripts: an entry
\* without the key raises KeyError, which nothing in the function catches
RaisesKeyError(transactions) ==
    \E i \in DOMAIN transactions :
        \/ \E j \in DOMAIN EntriesOf(transactions[i], "inputs") :
              "sender" \notin DOMAIN transactions[i].inputs[j]
        \/ \E j \in DOMAIN EntriesOf(transactions[i], "outputs") :
              \/ "recipient" \notin DOMAIN transactions[i].outputs[j]
              \/ "value" \notin DOMAIN transactions[i].outputs[j]

\* Factor 1: the senders and recipients met, in the order of the loops
AddressesOf(tx) ==
    [j \in DOMAIN EntriesOf(tx, "inputs") |-> tx.inputs[j].sender]
        \o [j \in DOMAIN EntriesOf(tx, "outputs") |-> tx.outputs[j].recipient]

IsCounted(addr) == addr # NA_SCRIPT

Interactions(transactions) ==
    SelectSeq(Flatten([i \in DOMAIN transactions |-> AddressesOf(transactions[i])]),
              IsCounted)

\* Factor 2: `tx.get('timestamp')` is falsy for a missing key, None and 0
NO_TIMESTAMP == 0

HasTimestamp(tx) == Get(tx, "timestamp", NO_TIMESTAMP) # NO_TIMESTAMP

Timestamps(transactions) ==
    LET kept == SelectSeq(transactions, HasTimestamp)
    IN  [i \in DOMAIN kept |-> kept[i].timestamp]

Intervals(timestamps) ==
    [i \in 1..(Len(timestamps) - 1) |-> timestamps[i + 1] - timestamps[i]]

\* abs(interval - avg_interval) < 3600, with avg_interval = total / count
IsRegular(interval, total, count) ==
    Abs(interval * count - total) < REGULAR_TOLERANCE * count

\* Factor 3
Amounts(transactions) ==
    Flatten([i \in DOMAIN transactions |->
               [j \in DOMAIN EntriesOf(transactions[i], "outputs") |->
                   transactions[i].outputs[j].value]])

IsRound_million(amount) == amount % (10 * ROUND_UNIT) = 0
IsRound(amount) == amount % ROUND_UNIT = 0

\* Factor 4
input_count(tx) == Get(tx, "input_count", 1)
output_count(tx) == Get(tx, "output_count", 1)
IsSimple(tx) == input_count(tx) = 1 /\ output_count(tx) = 2
IsComplex(tx) == input_count(tx) > COMPLEX_COUNT \/ output_count(tx) > COMPLEX_COUNT

\* Factor 5
ScriptTypes(transactions) ==
    UNION {{Get(tx.inputs[j], "script_type", "unknown") :
                j \in DOMAIN EntriesOf(tx, "inputs")}
             \cup {Get(tx.outputs[j], "script_type", "unknown") :
                     j \in DOMAIN EntriesOf(tx, "outputs")} :
           tx \in Range(transactions)}

\* Factor 6
IsSized(tx) == Get(tx, "size", 0) > 0

Sizes(transactions) ==
    LET kept == SelectSeq(transactions, IsSized)
    IN  [i \in DOMAIN kept |-> kept[i].size]

\* an append that is not guarded by its threshold
AppendIf_unguarded(cond, rec) == <<rec>>

\* `if cond: recommendations.append(rec)`
AppendIf(cond, rec) == IF cond THEN <<rec>> ELSE <<>>

\* sum(factors[f] * weights[f]), in hundredths
RECURSIVE WeightedSum(_, _)
WeightedSum(factors, names) ==
    IF names = {} THEN Whole(0)
    ELSE LET f == CHOOSE x \in names : TRUE
         IN  AddF(MulF(factors[f], weights[f]), WeightedSum(factors, names \ {f}))

calculate_privacy_score(transactions, target_address) ==
    IF transactions = <<>> THEN EmptyResult
    ELSE IF RaisesKeyError(transactions) THEN KeyError
    ELSE
    LET \* Factor 1
        interactions == Interactions(transactions)
        unique_addresses == Range(interactions)
        total_interactions == Len(interactions)
        reuse_ratio == Frac(Cardinality(unique_addresses),
                            IF total_interactions > 1 THEN total_interactions ELSE 1)
        address_diversity == MinF(MulF(reuse_ratio, 100), Whole(100))
        target_reuse == Count(interactions, target_address)
        \* Factor 2
        timestamps == sort(Timestamps(transactions))
        timed == Len(Timestamps(transactions)) > 1
        intervals == Intervals(timestamps)
        total == SumSeq(intervals)
        regular_pattern ==
            Frac(Cardinality({i \in DOMAIN intervals :
                                IsRegular(intervals[i], total, Len(intervals))}),
                 Len(intervals))
        timing_randomness ==
            IF timed THEN Frac((regular_pattern.d - regular_pattern.n) * 100,
                               regular_pattern.d)
            ELSE Whole(NEUTRAL)
        \* Factor 3
        amounts == Amounts(transactions)
        round_amounts == Cardinality({i \in DOMAIN amounts : IsRound(amounts[i])})
        round_amounts_ratio ==
            IF amounts # <<>> THEN Frac(round_amounts, Len(amounts)) ELSE Whole(0)
        amount_diversity ==
            IF amounts # <<>>
            THEN MaxF(Whole(0), AddF(Whole(100), MulF(round_amounts_ratio, -100)))
            ELSE Whole(NEUTRAL)
        repeated_amounts ==
            Cardinality({a \in Range(amounts) : Count(amounts, a) > 1})
        \* Factor 4
        simple_tx_ratio ==
            Frac(Cardinality({i \in DOMAIN transactions : IsSimple(transactions[i])}),
                 Len(transactions))
        complex_tx_ratio ==
            Frac(Cardinality({i \in DOMAIN transactions : IsComplex(transactions[i])}),
                 Len(transactions))
        transaction_structure ==
            MinF(AddF(MulF(simple_tx_ratio, 100), Whole(SIMPLE_BONUS)), Whole(100))
        \* Factor 5
        script_types == ScriptTypes(transactions)
        script_diversity ==
            MinF(Whole(Cardinality(script_types) * SCRIPT_TYPE_POINTS), Whole(100))
        \* Factor 6
        sizes == Sizes(transactions)
        sum_sizes == SumSeq(sizes)
        avg_size == Frac(sum_sizes, Len(sizes))
        \* sum((size - avg_size) ** 2) / len(sizes), then / avg_size:
        \* (n * sum(size ** 2) - sum(size) ** 2) / (n * sum(size))
        variance_over_avg ==
            Frac(Len(sizes) * SumSeq([i \in DOMAIN sizes |-> sizes[i] * sizes[i]])
                    - sum_sizes * sum_sizes,
                 Len(sizes) * sum_sizes)
        size_consistency ==
            IF sizes # <<>>
            THEN MinF(MaxF(Whole(0),
                           AddF(Whole(100), MulF(variance_over_avg, -VARIANCE_PENALTY))),
                      Whole(100))
            ELSE Whole(NEUTRAL)
        factors ==
            [f \in FactorNames |->
                CASE f = "address_diversity" -> address_diversity
                  [] f = "timing_randomness" -> timing_randomness
                  [] f = "amount_diversity" -> amount_diversity
                  [] f = "transaction_structure" -> transaction_structure
                  [] f = "script_diversity" -> script_diversity
                  [] f = "size_consistency" -> size_consistency]
        recommendations ==
            AppendIf(LtF(reuse_ratio, Frac(1, 2)), REC_NEW_ADDRESS)
            \o AppendIf(target_reuse > REUSE_LIMIT, REC_TARGET_REUSE(target_reuse))
            \o AppendIf(timed /\ LtF(Frac(7, 10), regular_pattern), REC_TIMING)
            \o AppendIf(amounts # <<>> /\ LtF(Frac(3, 10), round_amounts_ratio), REC_ROUND)
            \o AppendIf(LtF(simple_tx_ratio, Frac(3, 10)), REC_SIMPLE)
            \o AppendIf(LtF(Frac(3, 10), complex_tx_ratio), REC_COMPLEX)
        details ==
            [address_reuse_count |-> target_reuse,
             unique_addresses |-> Cardinality(unique_addresses),
             total_interactions |-> total_interactions,
             avg_time_between_tx |->
                 IF timed THEN Frac(total, Len(intervals) * SECONDS_PER_HOUR)
                 ELSE Whole(0),
             round_amounts_ratio |-> round_amounts_ratio,
             simple_tx_ratio |-> simple_tx_ratio,
             complex_tx_ratio |-> complex_tx_ratio,
             script_types_used |-> script_types]
            @@ (IF timed
                THEN [regular_timing_pattern |-> LtF(Frac(7, 10), regular_pattern)]
                ELSE EmptyFn)
            @@ (IF amounts # <<>>
                THEN [repeated_amounts |-> repeated_amounts] ELSE EmptyFn)
            @@ (IF sizes # <<>> THEN [avg_tx_size |-> avg_size] ELSE EmptyFn)
        weighted_score == WeightedSum(factors, FactorNames)
    IN  [score |-> RoundHalfEven(weighted_score.n, weighted_score.d),
         factors |-> factors,
         recommendations |-> recommendations,
         details |-> details]

-----------------------------------------------------------------------------
(* Inputs of calculate_privacy_score                                       *)

\* an input entry and an output entry as get_transaction_data builds them
Sender(sender, script_type) ==
    [sender |-> sender, value |-> 1, script_type |-> script_type]
Recipient(recipient, value, script_type) ==
    [recipient |-> recipient, value |-> value, script_type |-> script_type]

\* a record of get_transaction_data: inputs and outputs, no counts
FullTx(inputs, outputs, meta) ==
    [inputs |-> inputs, outputs |-> outputs,
     timestamp |-> meta.timestamp, size |-> meta.size]

\* a record of get_address_transactions: counts, no inputs and no outputs
SummaryTx(inputs, outputs, meta) ==
    [input_count |-> inputs, output_count |-> outputs,
     timestamp |-> meta.timestamp, size |-> meta.size]

\* block time and size of a record; an unconfirmed one has no block time
Metas ==
    {[timestamp |-> NO_TIMESTAMP, size |-> 0],
     [timestamp |-> 1000, size |-> 200],
     [timestamp |-> 20000, size |-> 400]}

\* one input (A) and two outputs (B, C) of distinct values, none round
OneInTwoOut(meta) ==
    FullTx(<<Sender("A", "v0_p2wpkh")>>,
           <<Recipient("B", 150000, "v0_p2wpkh"), Recipient("C", 250001, "p2pkh")>>,
           meta)

\* a script input next to A, one round output back to A
RoundToSelf(meta) ==
    FullTx(<<Sender(NA_SCRIPT, "unknown"), Sender("A", "p2sh")>>,
           <<Recipient("A", 200000, "v1_p2tr")>>, meta)

\* an input entry without 'sender', an output entry without 'value'
Malformed(meta) ==
    FullTx(<<[value |-> 1], Sender("A", "p2pkh")>>,
           <<[recipient |-> "B"], Recipient("C", 100000, "p2pkh")>>, meta)

ScoreTxs ==
    UNION {{OneInTwoOut(m), RoundToSelf(m), Malformed(m),
            SummaryTx(1, 2, m), SummaryTx(4, 1, m)} : m \in Metas}

\* length of the longest transaction list scored
MaxTxs == 3

TxLists == UNION {[1..n -> ScoreTxs] : n \in 0..MaxTxs}

\* a target address of the records, and one that is in none of them
Targets == {"A", "Z"}


-----------------------------------------------------------------------------
Init ==
    /\ transaction_graph = EmptyGraph
    /\ address_clusters = EmptyFn
    /\ last = [op |-> "init"]
    /\ added = {}
    /\ calls = 0
    /\ score_args = None
    /\ score_result = None
    /\ request = None

\* analyze_bitcoin_transaction(tx_hash)
AnalyzeBitcoinTransaction(tx_hash) ==
    /\ calls < MaxCalls
    /\ UNCHANGED <<score_args, score_result, request>>
    /\ calls' = calls + 1
    /\ \E tx_data \in get_transaction_data(tx_hash) :
        IF tx_data = None
        THEN /\ last' = [op |-> "analyze_bitcoin_transaction", tx_hash |-> tx_hash,
                         ret |-> None]
             /\ UNCHANGED <<transaction_graph, address_clusters, added>>
        ELSE /\ transaction_graph' = BuildGraph(transaction_graph, tx_hash, tx_data)
             /\ added' = added \cup {tx_hash}
             /\ last' = [op |-> "analyze_bitcoin_transaction", tx_hash |-> tx_hash,
                         ret |-> tx_data]
             /\ UNCHANGED address_clusters

\* cluster_addresses that also makes a graph node of every candidate
ClusterAddresses_adds_nodes(addresses) ==
    LET r == cluster_addresses(transaction_graph, address_clusters, addresses)
    IN  /\ calls < MaxCalls
        /\ calls' = calls + 1
        /\ UNCHANGED <<score_args, score_result, request>>
        /\ address_clusters' = r.ac
        /\ transaction_graph' =
               [transaction_graph EXCEPT !.nodes =
                   [x \in DOMAIN @ \cup Range(addresses) |->
                       IF x \in DOMAIN @ THEN @[x] ELSE "none"]]
        /\ last' = [op |-> "cluster_addresses", addresses |-> addresses,
                    ret |-> r.clusters]
        /\ UNCHANGED added

\* cluster_addresses(addresses)
ClusterAddresses(addresses) ==
    LET r == cluster_addresses(transaction_graph, address_clusters, addresses)
    IN  /\ calls < MaxCalls
        /\ calls' = calls + 1
        /\ UNCHANGED <<score_args, score_result, request>>
        /\ address_clusters' = r.ac
        /\ last' = [op |-> "cluster_addresses", addresses |-> addresses,
                    ret |-> r.clusters]
        /\ UNCHANGED <<transaction_graph, added>>

\* analyze_privacy_score that gives up the pass at the first failed fetch
AnalyzePrivacyScore_stops_at_failure(address) ==
    /\ calls < MaxCalls
    /\ UNCHANGED <<score_args, score_result, request>>
    /\ calls' = calls + 1
    /\ \E transactions \in get_address_transactions_info(address) :
       \E fetched \in SUBSET transactions :
       \E addresses \in Perms({r \in UNION {Recipients(Ledger[h]) :
                                    h \in IF fetched = transactions THEN fetched ELSE {}} :
                                 Truthy(r)}) :
          LET r == cluster_addresses(transaction_graph, address_clusters, addresses)
              related_addresses == find_related_addresses(transaction_graph, address)
          IN  /\ address_clusters' = r.ac
              /\ last' = [op |-> "analyze_privacy_score", address |-> address,
                          transaction_count |-> Cardinality(transactions),
                          fetched |-> fetched,
                          related |-> related_addresses,
                          cluster_id |-> IF address \in DOMAIN r.ac
                                         THEN r.ac[address] ELSE None,
                          cluster_size |-> cluster_size(r.ac, address)]
              /\ UNCHANGED <<transaction_graph, added>>

\* analyze_privacy_score(address)
AnalyzePrivacyScore(address) ==
    /\ calls < MaxCalls
    /\ UNCHANGED <<score_args, score_result, request>>
    /\ calls' = calls + 1
    /\ \E transactions \in get_address_transactions_info(address) :
       \E fetched \in SUBSET transactions :
       \E addresses \in Perms({r \in UNION {Recipients(Ledger[h]) : h \in fetched} :
                                 Truthy(r)}) :
          LET r == cluster_addresses(transaction_graph, address_clusters, addresses)
              related_addresses == find_related_addresses(transaction_graph, address)
          IN  /\ address_clusters' = r.ac
              /\ last' = [op |-> "analyze_privacy_score", address |-> address,
                          transaction_count |-> Cardinality(transactions),
                          fetched |-> fetched,
                          related |-> related_addresses,
                          cluster_id |-> IF address \in DOMAIN r.ac
                                         THEN r.ac[address] ELSE None,
                          cluster_size |-> cluster_size(r.ac, address)]
              /\ UNCHANGED <<transaction_graph, added>>

Next ==
    \/ \E tx_hash \in TxHashes : AnalyzeBitcoinTransaction(tx_hash)
    \/ \E addresses \in CandidateLists : ClusterAddresses(addresses)
    \/ \E address \in Addr : AnalyzePrivacyScore(address)

Spec == Init /\ [][Next]_vars

\* find_related_addresses(address)
FindRelatedAddresses(address) ==
    /\ calls < MaxCalls
    /\ calls' = calls + 1
    /\ last' = [op |-> "find_related_addresses", address |-> address,
                ret |-> find_related_addresses(transaction_graph, address)]
    /\ UNCHANGED <<transaction_graph, address_clusters, added, score_args, score_result, request>>

\* a run that adds transactions, clusters one address at a time and asks
\* for the related addresses
NextGraph ==
    \/ \E tx_hash \in GraphHashes : AnalyzeBitcoinTransaction(tx_hash)
    \/ \E address \in Addr : ClusterAddresses(<<address>>)
    \/ \E address \in Addr : FindRelatedAddresses(address)

SpecGraph == Init /\ [][NextGraph]_vars

\* a run of the scoring engine: one list and one target, scored
InitScore ==
    /\ transaction_graph = EmptyGraph
    /\ address_clusters = EmptyFn
    /\ last = [op |-> "init"]
    /\ added = {}
    /\ calls = 0
    /\ \E transactions \in TxLists, target_address \in Targets :
          score_args = [transactions |-> transactions,
                        target_address |-> target_address]
    /\ score_result = None
    /\ request = None

\* a variant that filters the caller's list in place
CalculatePrivacyScore_filters_in_place ==
    /\ score_args # None
    /\ score_result' = calculate_privacy_score(score_args.transactions,
                                               score_args.target_address)
    /\ score_args' = [score_args EXCEPT !.transactions = SelectSeq(@, HasTimestamp)]
    /\ UNCHANGED <<transaction_graph, address_clusters, last, added, calls, request>>

\* calculate_privacy_score(transactions, target_address): the caller's list
\* is read, never written
CalculatePrivacyScore ==
    /\ score_args # None
    /\ score_result' = calculate_privacy_score(score_args.transactions,
                                               score_args.target_address)
    /\ UNCHANGED <<score_args, transaction_graph, address_clusters, last, added, calls,
                   request>>

NextScore == CalculatePrivacyScore

SpecScore == InitScore /\ [][NextScore]_vars

-----------------------------------------------------------------------------
(* BlockchainAPIClient.make_request of src/addressny.py: the retry loop    *)

HTTP_OK == 200
HTTP_RATE_LIMITED == 429
HTTP_SERVER_ERROR == 500

\* bodies a response can carry: one that is JSON, one that is not
JSON_BODY == "{}"
HTML_BODY == "<html>"

\* what requests.get(url, timeout=30) ends in: a response, or a
\* RequestException (no connection, timeout)
RequestException == [exception |-> "RequestException"]

Responses ==
    [status : {HTTP_OK, HTTP_RATE_LIMITED, HTTP_SERVER_ERROR},
     body : {JSON_BODY, HTML_BODY}] \cup {RequestException}

IsResponse(outcome) == outcome # RequestException

JSONDecodeError == [error |-> "JSONDecodeError"]

\* response.json(): the parsed body, here the dict {}, or a decode error
json(body) == IF body = JSON_BODY THEN EmptyFn ELSE JSONDecodeError

\* the largest max_retries a call is made with
MaxRetries == 3

\* a call make_request(url, max_retries) about to enter its loop, under an
\* installed requests whose decode error is a RequestException or is not
InitRequest ==
    /\ transaction_graph = EmptyGraph
    /\ address_clusters = EmptyFn
    /\ last = [op |-> "init"]
    /\ added = {}
    /\ calls = 0
    /\ score_args = None
    /\ score_result = None
    /\ \E max_retries \in 0..MaxRetries, decode_error_caught \in BOOLEAN :
          request = [max_retries |-> max_retries,
                     decode_error_caught |-> decode_error_caught,
                     attempt |-> 0, outcomes |-> <<>>,
                     status |-> "running", ret |-> None]

\* the next iteration, when the loop goes on
NextAttempt(outcome) ==
    [request EXCEPT !.attempt = @ + 1, !.outcomes = Append(@, outcome)]

\* the call ends in the iteration that got the outcome
Return(outcome, value) ==
    [NextAttempt(outcome) EXCEPT !.status = "returned", !.ret = value]

Raise(outcome, error) ==
    [NextAttempt(outcome) EXCEPT !.status = "raised", !.ret = error]

\* one iteration of `for attempt in range(max_retries)`: the request and what
\* the loop does with its outcome.  A decode error of response.json() is a
\* RequestException, caught like the others, with requests 2.27 and later;
\* with an earlier requests it is a ValueError that leaves make_request.
MakeRequestAttempt(outcome) ==
    /\ request # None
    /\ request.status = "running"
    /\ request.attempt < request.max_retries
    /\ request' =
          IF ~IsResponse(outcome) THEN NextAttempt(outcome)
          ELSE IF outcome.status = HTTP_OK
          THEN IF json(outcome.body) # JSONDecodeError
               THEN Return(outcome, json(outcome.body))
               ELSE IF request.decode_error_caught THEN NextAttempt(outcome)
               ELSE Raise(outcome, JSONDecodeError)
          ELSE IF outcome.status = HTTP_RATE_LIMITED THEN NextAttempt(outcome)
          ELSE Return(outcome, None)
    /\ UNCHANGED <<transaction_graph, address_clusters, last, added, calls,
                   score_args, score_result>>

\* the `return None` after the loop
MakeRequestExhausted ==
    /\ request # None
    /\ request.status = "running"
    /\ request.attempt = request.max_retries
    /\ request' = [request EXCEPT !.status = "returned", !.ret = None]
    /\ UNCHANGED <<transaction_graph, address_clusters, last, added, calls,
                   score_args, score_result>>

NextRequest ==
    \/ \E outcome \in Responses : MakeRequestAttempt(outcome)
    \/ MakeRequestExhausted

\* every requests.get ends (timeout=30) and every sleep ends: the loop goes on
SpecRequest == InitRequest /\ [][NextRequest]_vars /\ WF_vars(NextRequest)

-----------------------------------------------------------------------------
(* Vocabulary of the properties                                            *)

nodes == DOMAIN transaction_graph.nodes
edges == DOMAIN transaction_graph.edges

\* every string a recipient field can hold
Strings == Addr \cup Sentinels \cup {NO_RECIPIENT}

\* a sentinel in the sense of the data model: no resolvable address
IsSentinel(r) == r \in Sentinels \/ r = NO_RECIPIENT

IsAdd(l) == l.op = "analyze_bitcoin_transaction" /\ l.ret # None
IsAssign(l) == l.op = "cluster_addresses"

NewlyClustered(l) == UNION {l.ret[c] : c \in DOMAIN l.ret}

CoOccur(a, b) == \E h \in added : {a, b} \subseteq Recipients(Ledger[h])

\* C1: once an address has a cluster id, no later call changes it to a
\* different id (nor removes it), whatever transactions are added in between.
C1_ClusterIdsNeverReassigned ==
    [][\A a \in DOMAIN address_clusters :
          /\ a \in DOMAIN address_clusters'
          /\ address_clusters'[a] = address_clusters[a]]_vars

\* C1 witness: cluster_addresses has just run on an address that already had
\* an id and whose component now also holds an address of another cluster.
C1_Witness ==
    /\ IsAssign(last)
    /\ \E a \in Range(last.addresses) : \E b \in DOMAIN address_clusters :
          /\ a \in DOMAIN address_clusters
          /\ a \notin NewlyClustered(last)
          /\ b \in node_connected_component(transaction_graph, a)
          /\ address_clusters[b] # address_clusters[a]

\* C2: every id a cluster_addresses call allocates is strictly greater than
\* every id allocated before it, earlier calls included.
C2_NewIdsAboveEarlierIds ==
    IsAssign(last) =>
        \A id \in DOMAIN last.ret : \A a \in DOMAIN address_clusters :
            a \notin NewlyClustered(last) => id > address_clusters[a]

\* C3: two addresses that both hold a cluster id and never appeared together
\* in an added transaction hold distinct ids.
C3_NeverCoOccurringDistinctIds ==
    \A a, b \in Addr \cap DOMAIN address_clusters :
        (a # b /\ ~CoOccur(a, b)) => address_clusters[a] # address_clusters[b]

\* a record with the single input x and the two outputs y, z
IsLinkTx(tx, x, y, z) ==
    /\ tx.inputs = <<In(x)>>
    /\ Len(tx.outputs) = 2
    /\ tx.outputs[1].recipient = y
    /\ tx.outputs[2].recipient = z

\* the step is cluster_addresses([x, y, z]) right after the add of such a record
AddThenAssign(x, y, z) ==
    /\ IsAdd(last)
    /\ IsLinkTx(last.ret, x, y, z)
    /\ IsAssign(last')
    /\ last'.addresses = <<x, y, z>>

SameCluster(ac, x, y, z) ==
    /\ {x, y, z} \subseteq DOMAIN ac
    /\ ac[x] = ac[y]
    /\ ac[y] = ac[z]

\* C4 as claimed: in any state, add_transaction(A -> B, C) followed by
\* assign([A, B, C]) leaves the three cluster ids defined and equal.
C4_AddThenAssignSameCluster ==
    [][\A x, y, z \in Addr :
          AddThenAssign(x, y, z) => SameCluster(address_clusters', x, y, z)]_vars

\* C4 amended: the same, when no address of A's connected component has a
\* cluster id before the assign call.
C4_AddThenAssignSameClusterIfUnregistered ==
    [][\A x, y, z \in Addr :
          (/\ AddThenAssign(x, y, z)
           /\ \A m \in node_connected_component(transaction_graph, x) :
                 m \notin DOMAIN address_clusters)
          => SameCluster(address_clusters', x, y, z)]_vars

\* C4 witness: the second call of the run is assign([A, B, C]), the first one
\* added t1 (A -> B, C), and the call put A, B and C in one new cluster.
C4_Witness ==
    /\ calls = 2
    /\ added = {"t1"}
    /\ IsAssign(last)
    /\ last.addresses = <<"A", "B", "C">>
    /\ \E c \in DOMAIN last.ret : {"A", "B", "C"} \subseteq last.ret[c]
    /\ SameCluster(address_clusters, "A", "B", "C")

\* two cluster_addresses calls in a row on the same list
RepeatedAssign ==
    /\ IsAssign(last)
    /\ IsAssign(last')
    /\ last'.addresses = last.addresses

\* C5 as claimed: the second of two assign(addrs) calls in a row returns the
\* cluster-id -> addresses mapping the first one returned.
C5_RepeatedAssignSameReturn ==
    [][RepeatedAssign => last'.ret = last.ret]_vars

\* C5 amended: the second of two assign(addrs) calls in a row leaves the
\* address -> cluster-id registry as the first call left it, and returns an
\* empty mapping.
C5_RepeatedAssignSameRegistry ==
    [][RepeatedAssign =>
          (address_clusters' = address_clusters /\ last'.ret = EmptyFn)]_vars

\* C5 witness: after two calls the registry is exactly C -> 0, A -> 1 and the
\* last call, assign([C, A]), returned nothing: the first call was the same
\* assign([C, A]).
C5_Witness ==
    /\ calls = 2
    /\ IsAssign(last)
    /\ last.addresses = <<"C", "A">>
    /\ last.ret = EmptyFn
    /\ DOMAIN address_clusters = {"C", "A"}
    /\ address_clusters["C"] = 0
    /\ address_clusters["A"] = 1

\* C6: no sentinel value is a graph node, an endpoint of an edge or a key of
\* the cluster registry.
C6_SentinelsStayOut ==
    \A r \in Sentinels :
        /\ r \notin nodes
        /\ \A e \in edges : e[1] # r /\ e[2] # r
        /\ r \notin DOMAIN address_clusters

\* C7: B is in neighbors(A) exactly when A is in neighbors(B).
C7_NeighborsSymmetric ==
    \A a, b \in Strings :
        b \in find_related_addresses(transaction_graph, a)
            <=> a \in find_related_addresses(transaction_graph, b)

\* C7 witness: a one-way edge a -> b, each end among the other's neighbors.
C7_Witness ==
    \E a, b \in Addr :
        /\ a # b
        /\ <<a, b>> \in edges
        /\ <<b, a>> \notin edges
        /\ a \in find_related_addresses(transaction_graph, b)
        /\ b \in find_related_addresses(transaction_graph, a)

\* C8: add_transaction leaves, for every non-sentinel input and non-sentinel
\* output of the record, an edge input -> output carrying the call's hash and
\* that output's value, and adds no edge for any other pair.
C8_EdgePerInputOutputPair ==
    [][IsAdd(last') =>
          LET tx == last'.ret
              g == transaction_graph'
          IN  /\ \A i \in DOMAIN tx.inputs : \A o \in DOMAIN tx.outputs :
                    (~IsSentinel(tx.inputs[i].recipient)
                        /\ ~IsSentinel(tx.outputs[o].recipient))
                    => /\ <<tx.inputs[i].recipient, tx.outputs[o].recipient>>
                            \in DOMAIN g.edges
                       /\ g.edges[<<tx.inputs[i].recipient, tx.outputs[o].recipient>>]
                            = [tx_hash |-> last'.tx_hash,
                               value |-> tx.outputs[o].value]
              /\ \A e \in DOMAIN g.edges \ edges :
                    \E i \in DOMAIN tx.inputs : \E o \in DOMAIN tx.outputs :
                        /\ e = <<tx.inputs[i].recipient, tx.outputs[o].recipient>>
                        /\ ~IsSentinel(e[1])
                        /\ ~IsSentinel(e[2])]_vars

\* the record links at least one non-sentinel input to a non-sentinel output
HasLink(tx) ==
    \E i \in DOMAIN tx.inputs : \E o \in DOMAIN tx.outputs :
        ~IsSentinel(tx.inputs[i].recipient) /\ ~IsSentinel(tx.outputs[o].recipient)

\* C9: adding the same transaction a second time produces duplicate parallel
\* edges: the graph has more edges after the second add than after the first.
C9_ReAddAddsEdges ==
    [][(/\ IsAdd(last)
        /\ IsAdd(last')
        /\ last'.tx_hash = last.tx_hash
        /\ HasLink(last'.ret))
       => Cardinality(DOMAIN transaction_graph'.edges) > Cardinality(edges)]_vars

\* C10: every node, and every edge with its tx-hash and value, stays in the
\* graph unchanged in every later state.
C10_GraphOnlyGrows ==
    [][/\ \A n \in nodes : n \in DOMAIN transaction_graph'.nodes
       /\ \A e \in edges :
            /\ e \in DOMAIN transaction_graph'.edges
            /\ transaction_graph'.edges[e] = transaction_graph.edges[e]]_vars

-----------------------------------------------------------------------------
(* Properties of calculate_privacy_score                                   *)

\* the call has returned a result (it did not raise)
Returned == score_result # None /\ score_result # KeyError

EqF(a, b) == a.n * b.d = b.n * a.d
LeF(a, b) == a.n * b.d <= b.n * a.d

InRange(x) == LeF(Whole(0), x) /\ LeF(x, Whole(100))

\* C11: with an empty transaction list the call returns score 0, no
\* factors, no recommendations and no details, whatever the target address.
C11_EmptyListEmptyResult ==
    (score_result # None /\ score_args.transactions = <<>>) =>
        /\ DOMAIN score_result = {"score", "factors", "recommendations", "details"}
        /\ score_result.score = 0
        /\ DOMAIN score_result.factors = {}
        /\ score_result.recommendations = <<>>
        /\ DOMAIN score_result.details = {}

C11_Witness ==
    /\ score_result # None
    /\ score_args.transactions = <<>>
    /\ score_args.target_address = "Z"

\* C12: every factor set returned for a non-empty list holds the six
\* factors, each between 0 and 100, and the score (kept in hundredths) lies
\* between 0 and 100.
C12_FactorsAndScoreInRange ==
    (Returned /\ score_args.transactions # <<>>) =>
        /\ DOMAIN score_result.factors = FactorNames
        /\ \A f \in FactorNames : InRange(score_result.factors[f])
        /\ score_result.score >= 0
        /\ score_result.score <= 100 * 100

\* both clamps at work: 1-input/2-output summaries of very different sizes
C12_Witness ==
    /\ Returned
    /\ Len(score_args.transactions) = MaxTxs
    /\ \A i \in DOMAIN score_args.transactions :
          IsSimple(score_args.transactions[i])
    /\ EqF(score_result.factors["transaction_structure"], Whole(100))
    /\ EqF(score_result.factors["size_consistency"], Whole(0))

\* C13: the call never ends in an error, whatever the shape of the entries.
C13_NeverEndsInError ==
    score_result # None => score_result # KeyError

\* C14: a single transaction with exactly one input entry and exactly two
\* output entries of distinct values, none round, scores
\* transaction_structure = 100.
C14_OneInputTwoOutputsScore100 ==
    LET transactions == score_args.transactions
        tx == transactions[1]
    IN  (/\ Returned
         /\ Len(transactions) = 1
         /\ {"inputs", "outputs"} \subseteq DOMAIN tx
         /\ Len(tx.inputs) = 1
         /\ Len(tx.outputs) = 2
         /\ tx.outputs[1].value # tx.outputs[2].value
         /\ \A j \in 1..2 : tx.outputs[j].value % 100000 # 0)
        => EqF(score_result.factors["transaction_structure"], Whole(100))

\* C15: when the records hold at least one output and every output value is
\* a multiple of 100 000, amount_diversity is 0.
C15_AllRoundAmountsScore0 ==
    LET outputs == Flatten([i \in DOMAIN score_args.transactions |->
                              EntriesOf(score_args.transactions[i], "outputs")])
    IN  (/\ Returned
         /\ outputs # <<>>
         /\ \A j \in DOMAIN outputs : outputs[j].value % 100000 = 0)
        => EqF(score_result.factors["amount_diversity"], Whole(0))

C15_Witness ==
    /\ Returned
    /\ Len(score_args.transactions) > 1
    /\ \E i \in DOMAIN score_args.transactions :
          "outputs" \in DOMAIN score_args.transactions[i]
    /\ \A i \in DOMAIN score_args.transactions :
       \A j \in DOMAIN EntriesOf(score_args.transactions[i], "outputs") :
          score_args.transactions[i].outputs[j].value % 100000 = 0
    /\ EqF(score_result.factors["amount_diversity"], Whole(0))

-----------------------------------------------------------------------------
(* Properties of the components and of the cluster sizes                   *)

\* C16: the cluster size reported for an address is 0 when the address has
\* no cluster id, and otherwise the number of addresses that hold its
\* cluster id, which is at least 1.
C16_ClusterSizeCountsMembers ==
    last.op = "analyze_privacy_score" =>
        IF last.address \notin DOMAIN address_clusters
        THEN last.cluster_size = 0
        ELSE /\ last.cluster_size =
                   Cardinality({a \in DOMAIN address_clusters :
                       address_clusters[a] = address_clusters[last.address]})
             /\ last.cluster_size >= 1

\* C17: a candidate that got its id in the last cluster_addresses call and is
\* no node of the graph is alone in its new cluster, and no other address of
\* the registry holds its id.
C17_AbsentCandidateOwnId ==
    IsAssign(last) =>
        \A a \in Range(last.addresses) :
            (a \in NewlyClustered(last) /\ a \notin nodes) =>
                /\ \E c \in DOMAIN last.ret : last.ret[c] = {a}
                /\ \A b \in DOMAIN address_clusters :
                      b # a => address_clusters[b] # address_clusters[a]

\* a set closed under the edges, taken in both directions
Closed(S) == \A e \in edges : (e[1] \in S) <=> (e[2] \in S)

\* S is the set of nodes joined to a by a path of the undirected graph: the
\* least set of nodes that holds a and is closed under the edges
IsComponentOf(S, a) ==
    /\ a \in S
    /\ S \subseteq nodes
    /\ Closed(S)
    /\ \A T \in SUBSET S : (a \in T /\ Closed(T)) => T = S

HasEdge(a) == \E e \in edges : e[1] = a \/ e[2] = a

\* the input and output addresses of a record, sentinels left out
AddressesIn(tx) == {r \in Recipients(tx) : ~IsSentinel(r)}

\* cluster_addresses([a]) has just registered the component of the node a
ComponentReturned ==
    /\ IsAssign(last)
    /\ Len(last.addresses) = 1
    /\ last.addresses[1] \in nodes
    /\ DOMAIN last.ret # {}

\* C18 as claimed: the component computed for a node is exactly the set of
\* nodes reachable from it in the undirected graph, it is the node alone when
\* the node has no edge, and it holds every address of every added
\* transaction the node is in.
C18_ComponentIsReachableSet ==
    ComponentReturned =>
        LET a == last.addresses[1]
            component == last.ret[FirstClusterId]
        IN  /\ IsComponentOf(component, a)
            /\ ~HasEdge(a) => component = {a}
            /\ \A h \in added : a \in AddressesIn(Ledger[h]) =>
                   AddressesIn(Ledger[h]) \subseteq component

\* C18, amended: the same, the last part for the added transactions that
\* have at least one non-sentinel input and one non-sentinel output (the
\* others add no edge).
C18_ComponentIsReachableSetOfLinks ==
    ComponentReturned =>
        LET a == last.addresses[1]
            component == last.ret[FirstClusterId]
        IN  /\ IsComponentOf(component, a)
            /\ ~HasEdge(a) => component = {a}
            /\ \A h \in added : (a \in AddressesIn(Ledger[h]) /\ HasLink(Ledger[h])) =>
                   AddressesIn(Ledger[h]) \subseteq component

\* the component of C, reached against the direction of two edges
C18_Witness ==
    /\ ComponentReturned
    /\ last.addresses[1] = "C"
    /\ added = {"g2", "g3"}
    /\ last.ret[FirstClusterId] = {"A", "B", "C", "D"}

\* C20: any two addresses that hold the same cluster id are in the same
\* connected component of the undirected graph.
C20_SameIdSameComponent ==
    \A a, b \in DOMAIN address_clusters :
        (a # b /\ address_clusters[a] = address_clusters[b]) =>
            /\ a \in nodes
            /\ \E S \in SUBSET nodes : IsComponentOf(S, a) /\ b \in S

-----------------------------------------------------------------------------
(* Properties of the passes                                                *)

\* the component cluster_addresses computes for a candidate: that of the
\* node, the candidate alone when it is no node
ComponentOf(G, a) ==
    IF a \in DOMAIN G.nodes THEN node_connected_component(G, a) ELSE {a}

\* C21: in a cluster_addresses call, a candidate whose component holds an
\* address that had a cluster id before the call gets no new cluster for its
\* component, and no member of the component gets or changes a registry
\* entry.
C21_RegisteredComponentSkipped ==
    [][IsAssign(last') =>
          \A a \in Range(last'.addresses) :
              LET component == ComponentOf(transaction_graph, a)
              IN  (component \cap DOMAIN address_clusters # {}) =>
                      /\ \A c \in DOMAIN last'.ret : last'.ret[c] \cap component = {}
                      /\ \A m \in component :
                            /\ m \in DOMAIN address_clusters' <=> m \in DOMAIN address_clusters
                            /\ m \in DOMAIN address_clusters =>
                                  address_clusters'[m] = address_clusters[m]]_vars

\* B was a candidate after its component {A, B, C} already held the
\* registered A: B and C stay without an id
C21_Witness ==
    /\ IsAssign(last)
    /\ last.addresses = <<"B">>
    /\ "t1" \in added
    /\ DOMAIN address_clusters = {"A"}
    /\ DOMAIN last.ret = {}

\* the edges analyze_bitcoin_transaction adds for a record
EdgesOf(tx) ==
    {<<tx.inputs[i].recipient, tx.outputs[o].recipient>> :
        i \in {k \in DOMAIN tx.inputs : Linkable(tx.inputs[k].recipient)},
        o \in {k \in DOMAIN tx.outputs : Linkable(tx.outputs[k].recipient)}}

\* C22: when an address pass has clustered the addresses of the records it
\* fetched, the graph holds the edges of every one of these records.
C22_GraphUpdatedBeforeClustering ==
    last.op = "analyze_privacy_score" =>
        \A h \in last.fetched : EdgesOf(Ledger[h]) \subseteq edges

InputsOf(tx) == {tx.inputs[i].recipient : i \in DOMAIN tx.inputs}
OutputsOf(tx) == {tx.outputs[i].recipient : i \in DOMAIN tx.outputs}

\* C23: every node carries one of the role tags input, output, both, and a
\* node that is an input of an added transaction and an output of an added
\* transaction carries the tag both.
C23_NodesCarryRoleTags ==
    \A n \in nodes :
        /\ transaction_graph.nodes[n] \in {"input", "output", "both"}
        /\ ((\E h \in added : n \in InputsOf(Ledger[h]))
               /\ (\E h \in added : n \in OutputsOf(Ledger[h])))
           => transaction_graph.nodes[n] = "both"

-----------------------------------------------------------------------------
(* Further properties of calculate_privacy_score                           *)

\* the distinct block times of the records that have one
DistinctTimestamps(transactions) ==
    {transactions[i].timestamp : i \in {k \in DOMAIN transactions :
        "timestamp" \in DOMAIN transactions[k]
            /\ transactions[k].timestamp # NO_TIMESTAMP}}

\* C24: when the records hold fewer than 2 distinct timestamps (none, one,
\* or several equal ones), timing_randomness is 50.
C24_FewTimestampsNeutral ==
    (/\ Returned
     /\ score_args.transactions # <<>>
     /\ Cardinality(DistinctTimestamps(score_args.transactions)) < 2)
        => EqF(score_result.factors["timing_randomness"], Whole(50))

\* <<rec>> when the threshold is met, nothing otherwise
When(triggered, rec) == IF triggered THEN <<rec>> ELSE <<>>

\* the recommendations the reported details call for, in the order of the
\* checks: reuse ratio < 0.5, target reuse > 5, regular timing > 0.7,
\* round amounts > 0.3, simple transactions < 0.3, complex ones > 0.3
ExpectedRecommendations(details) ==
    When(2 * details.unique_addresses
            < (IF details.total_interactions > 1 THEN details.total_interactions ELSE 1),
         REC_NEW_ADDRESS)
    \o When(details.address_reuse_count > 5,
            REC_TARGET_REUSE(details.address_reuse_count))
    \o When("regular_timing_pattern" \in DOMAIN details
               /\ details.regular_timing_pattern, REC_TIMING)
    \o When(10 * details.round_amounts_ratio.n > 3 * details.round_amounts_ratio.d,
            REC_ROUND)
    \o When(10 * details.simple_tx_ratio.n < 3 * details.simple_tx_ratio.d, REC_SIMPLE)
    \o When(10 * details.complex_tx_ratio.n > 3 * details.complex_tx_ratio.d, REC_COMPLEX)

\* C25: the recommendations returned are exactly the strings of the
\* thresholds met, one each, in the fixed order of the checks.
C25_RecommendationsInCheckOrder ==
    (Returned /\ score_args.transactions # <<>>) =>
        score_result.recommendations = ExpectedRecommendations(score_result.details)

\* four thresholds met at once, the target address met 6 times
C25_Witness ==
    /\ Returned
    /\ score_result.recommendations =
           <<REC_NEW_ADDRESS, REC_TARGET_REUSE(6), REC_ROUND, REC_SIMPLE>>

-----------------------------------------------------------------------------
(* Failed fetches, atomicity and frames                                    *)

\* the candidate was handled by cluster_addresses: it holds an id, or it is
\* a node whose component holds a registered address (a skipped component)
Handled(G, ac, a) ==
    \/ a \in DOMAIN ac
    \/ a \in DOMAIN G.nodes /\ node_connected_component(G, a) \cap DOMAIN ac # {}

\* C26: a transaction analysis whose fetch fails returns None and leaves the
\* graph and the registry as they were; an address pass returns its result
\* and has handled the addresses of every record it could fetch, whatever
\* fetches failed.
C26_FetchFailureIsNoData ==
    [][/\ (last'.op = "analyze_bitcoin_transaction" /\ last'.ret = None) =>
              /\ transaction_graph' = transaction_graph
              /\ address_clusters' = address_clusters
       /\ last'.op = "analyze_privacy_score" =>
              /\ "cluster_id" \in DOMAIN last'
              /\ \A h \in last'.fetched :
                 \A a \in {r \in Recipients(Ledger[h]) : Truthy(r)} :
                     Handled(transaction_graph', address_clusters', a)]_vars

\* a pass over the two transactions of A in which one of the fetches failed
C26_Witness ==
    /\ last.op = "analyze_privacy_score"
    /\ last.address = "A"
    /\ last.transaction_count = 2
    /\ last.fetched = {"t1"}
    /\ DOMAIN address_clusters = {"A", "B", "C"}

\* C27: whenever a cluster computation can read the graph, that is between
\* two calls, the graph holds every edge of a transaction that was added and
\* no edge written by a transaction that was not: never a part of the edges
\* of one transaction.
C27_AllEdgesOrNone ==
    \A h \in TxHashes :
        IF h \in added
        THEN EdgesOf(Ledger[h]) \subseteq edges
        ELSE \A e \in edges : transaction_graph.edges[e].tx_hash # h

\* cluster_addresses has read a graph that holds both edges of t2
C27_Witness ==
    /\ IsAssign(last)
    /\ added = {"t2"}
    /\ edges = {<<"A", "B">>, <<"B", "B">>}
    /\ DOMAIN last.ret # {}

\* C28 as claimed: after cluster_addresses(addresses), every address of the
\* list has a cluster id.
C28_EveryCandidateRegistered ==
    IsAssign(last) =>
        \A a \in Range(last.addresses) : a \in DOMAIN address_clusters

\* C28, amended: after cluster_addresses(addresses), every address of the
\* list has a cluster id, but for a node without an id whose component holds
\* an address with an id (its component was skipped).
C28_EveryCandidateRegisteredOrSkipped ==
    IsAssign(last) =>
        \A a \in Range(last.addresses) :
            \/ a \in DOMAIN address_clusters
            \/ /\ a \in nodes
               /\ \E m \in node_connected_component(transaction_graph, a) :
                     m # a /\ m \in DOMAIN address_clusters

\* one call that registers a candidate outside the graph and skips another
\* whose component holds the registered A
C28_Witness ==
    /\ IsAssign(last)
    /\ last.addresses = <<"C", "B">>
    /\ added = {"t2"}
    /\ DOMAIN address_clusters = {"A", "C"}

\* C29: cluster_addresses leaves the graph as it was,
\* analyze_bitcoin_transaction leaves the registry as it was, and
\* find_related_addresses leaves both as they were.
C29_GraphAndRegistryFrames ==
    [][/\ last'.op = "cluster_addresses" => transaction_graph' = transaction_graph
       /\ last'.op = "analyze_bitcoin_transaction" => address_clusters' = address_clusters
       /\ last'.op = "find_related_addresses" =>
              /\ transaction_graph' = transaction_graph
              /\ address_clusters' = address_clusters]_vars

\* related addresses asked for on a graph with edges and a registry with ids
C29_Witness ==
    /\ last.op = "find_related_addresses"
    /\ last.ret # {}
    /\ edges # {}
    /\ DOMAIN address_clusters # {}

-----------------------------------------------------------------------------
(* Properties of make_request                                              *)

Terminated == request.status # "running"

\* the number of HTTP requests issued so far
Issued == Len(request.outcomes)

HasStatus(outcome, codes) == IsResponse(outcome) /\ outcome.status \in codes

\* the outcome is the last one and it ended the call by returning value
EndsCallWith(i, value) ==
    /\ i = Issued
    /\ request.status = "returned"
    /\ request.ret = value

\* every attempt allowed was made and none ended the call
AllAttemptsFailed == ~Terminated /\ Issued = request.max_retries

\* C30 as claimed, the part that holds at every point of a call: at most
\* max_retries requests are issued, the first status 200 ends the call with
\* the JSON body, the first status other than 200 and 429 ends it with
\* None, and a call that ends after max_retries attempts which all ended in
\* 429 or an exception returns None.
C30_Safety ==
    /\ Issued <= request.max_retries
    /\ \A i \in DOMAIN request.outcomes :
          LET outcome == request.outcomes[i]
          IN  /\ HasStatus(outcome, {HTTP_OK}) =>
                     EndsCallWith(i, json(outcome.body))
                        /\ json(outcome.body) # JSONDecodeError
              /\ HasStatus(outcome, {HTTP_SERVER_ERROR}) => EndsCallWith(i, None)
    /\ (/\ Terminated
        /\ \A i \in DOMAIN request.outcomes :
              ~HasStatus(request.outcomes[i], {HTTP_OK, HTTP_SERVER_ERROR}))
       => /\ Issued = request.max_retries
          /\ request.status = "returned"
          /\ request.ret = None

\* C30 as claimed: the above at every point, and the call always ends.
C30_MakeRequestTerminates == []C30_Safety /\ <>Terminated

====
